---- MODULE Spec2Model ----
(***************************************************************************)
(* Verizip (src/verizip.py): creation of a hash-verified zip archive.      *)
(*                                                                         *)
(* The model follows the POSIX branches of the program (platform.system()  *)
(* is not "Windows", the path separator is "/").                           *)
(*                                                                         *)
(* A path string is represented by the sequence of its components, i.e.    *)
(* by what str.split("/") returns for it:                                  *)
(*      "/a/x"  is <<"", "a", "x">>      "a/x" is <<"a", "x">>             *)
(*      "//a/x" is <<"", "", "a", "x">>  "/"   is <<"", "">>               *)
(*      ""      is <<"">>                "x/." is <<"x", ".">>             *)
(* Every string is a non-empty sequence; None is the empty sequence.       *)
(* Logging and notifications (printer) are output only and are not state.  *)
(***************************************************************************)
EXTENDS Integers, Sequences, FiniteSets, TLC

\* ------------------------------------------------------------------ bounds
MaxInputs == 2      \* longest list of input paths on the command line
MaxChanges == 1     \* how many times the environment touches a file or the archive
MaxPaths == 2       \* longest list handed to get_common_root_directory (SpecRoot)
MaxDepth == 2       \* most components of a path handed to it (SpecRoot)
MaxSuffix == 3      \* largest "_k" name that may pre-exist (SpecSafe)

None == <<>>
EmptyStr == <<"">>

\* ------------------------------------------------------- sequence helpers
Last(s) == s[Len(s)]
Front(s) == SubSeq(s, 1, Len(s) - 1)
Range(s) == {s[i] : i \in 1..Len(s)}
Min(a, b) == IF a < b THEN a ELSE b

\* [x for x in comps if x]
RECURSIVE NonEmpty(_)
NonEmpty(comps) ==
    IF comps = <<>> THEN <<>>
    ELSE IF comps[1] = "" THEN NonEmpty(Tail(comps))
    ELSE <<comps[1]>> \o NonEmpty(Tail(comps))

\* number of leading components that two lists share (os.path.commonprefix)
RECURSIVE CommonLen(_, _)
CommonLen(a, b) ==
    IF a = <<>> \/ b = <<>> THEN 0
    ELSE IF a[1] = b[1] THEN 1 + CommonLen(Tail(a), Tail(b))
    ELSE 0

RECURSIVE Repeat(_, _)
Repeat(x, n) == IF n <= 0 THEN <<>> ELSE <<x>> \o Repeat(x, n - 1)

\* number of "/" characters the string starts with
RECURSIVE LeadingEmpty(_)
LeadingEmpty(p) ==
    IF p = <<>> \/ p[1] # "" THEN 0 ELSE 1 + LeadingEmpty(Tail(p))

LeadingSlashes(p) ==
    IF LeadingEmpty(p) = Len(p) THEN Len(p) - 1 ELSE LeadingEmpty(p)

\* ------------------------------------------------------ posixpath functions
\* sep.join(components): joining no components gives the empty string
Join(comps) == IF comps = <<>> THEN EmptyStr ELSE comps

\* the loop of posixpath.normpath over the components
RECURSIVE NormComps(_, _, _)
NormComps(comps, acc, rooted) ==
    IF comps = <<>> THEN acc
    ELSE LET c == comps[1] rest == Tail(comps) IN
         IF c = "" \/ c = "." THEN NormComps(rest, acc, rooted)
         ELSE IF c # ".." THEN NormComps(rest, Append(acc, c), rooted)
         ELSE IF (~rooted /\ acc = <<>>) \/ (acc # <<>> /\ Last(acc) = "..")
              THEN NormComps(rest, Append(acc, c), rooted)
         ELSE IF acc # <<>> THEN NormComps(rest, Front(acc), rooted)
         ELSE NormComps(rest, acc, rooted)

normpath(p) ==
    IF p = EmptyStr THEN <<".">>
    ELSE LET n == LeadingSlashes(p)
             k == IF n = 0 THEN 0 ELSE IF n = 2 THEN 2 ELSE 1
             nc == NormComps(p, <<>>, k > 0)
         IN IF nc = <<>>
            THEN (IF k = 0 THEN <<".">> ELSE Repeat("", k + 1))
            ELSE Repeat("", k) \o nc

\* every path the model hands to abspath is absolute, so no cwd is joined
abspath(p) == normpath(p)

\* os.path.join(a, b)
pathjoin(a, b) ==
    IF Len(b) > 1 /\ b[1] = "" THEN b
    ELSE IF a = EmptyStr THEN b
    ELSE IF Last(a) = "" THEN Front(a) \o b
    ELSE a \o b

basename(p) == <<Last(p)>>

RECURSIVE RStripSlashes(_)
RStripSlashes(comps) ==
    IF Len(comps) > 1 /\ Last(comps) = "" THEN RStripSlashes(Front(comps))
    ELSE comps

dirname(p) ==
    IF Len(p) = 1 THEN EmptyStr
    ELSE LET head == Append(Front(p), "") IN
         IF LeadingEmpty(head) = Len(head) THEN head
         ELSE RStripSlashes(head)

relpath(path, start) ==
    LET start_list == NonEmpty(abspath(start))
        path_list == NonEmpty(abspath(path))
        i == CommonLen(start_list, path_list)
        rel_list == Repeat("..", Len(start_list) - i)
                    \o SubSeq(path_list, i + 1, Len(path_list))
    IN IF rel_list = <<>> THEN <<".">> ELSE rel_list

\* s[1:] for a string that starts with "/"
DropLeadingSlash(p) == IF Len(p) > 1 /\ p[1] = "" THEN Tail(p) ELSE p


\* --------------------------------------------------------- path utilities
\* verizip.py: check_all_iterable_values_equal
check_all_iterable_values_equal(iterable) ==
    \A k \in 2..Len(iterable) : iterable[k] = iterable[1]

MinLen(paths) ==
    IF paths = <<>> THEN 0
    ELSE CHOOSE n \in {Len(paths[k]) : k \in 1..Len(paths)} :
             \A k \in 1..Len(paths) : n <= Len(paths[k])

\* zip(*[p.split(sep) for p in paths]): one tuple per component position,
\* as many as the shortest path has components
directory_levels_tuple(paths) ==
    [i \in 1..MinLen(paths) |-> [k \in 1..Len(paths) |-> paths[k][i]]]

\* faulty variant of TakeWhileEqual: keeps every level whose values agree (a filter
\* in place of takewhile)
RECURSIVE TakeWhileEqual_filter(_)
TakeWhileEqual_filter(levels) ==
    IF levels = <<>> THEN <<>>
    ELSE IF check_all_iterable_values_equal(levels[1])
         THEN <<levels[1][1]>> \o TakeWhileEqual_filter(Tail(levels))
    ELSE TakeWhileEqual_filter(Tail(levels))

\* x[0] for x in itertools.takewhile(check_all_iterable_values_equal, levels)
RECURSIVE TakeWhileEqual(_)
TakeWhileEqual(levels) ==
    IF levels = <<>> THEN <<>>
    ELSE IF check_all_iterable_values_equal(levels[1])
         THEN <<levels[1][1]>> \o TakeWhileEqual(Tail(levels))
    ELSE <<>>

\* verizip.py: get_common_root_directory (sep is "/")
get_common_root_directory(paths) ==
    LET common_directory == Join(TakeWhileEqual(directory_levels_tuple(paths)))
    IN IF common_directory # EmptyStr THEN common_directory ELSE None

\* the relative path get_hash_dict records for a file
hash_dict_rel_path(file_path, root_dir, dir_flag) ==
    LET rel_path == IF root_dir # None THEN relpath(file_path, root_dir)
                    ELSE DropLeadingSlash(file_path)
    IN IF dir_flag /\ root_dir # None
       THEN pathjoin(basename(root_dir), rel_path)
       ELSE rel_path

\* the arcname add_files_to_zip passes to zip_handler.write
zip_arcname(file_path, common_root_directory, put_all_files_in_shared_root_dir) ==
    LET rel_path == IF common_root_directory # None
                    THEN relpath(file_path, common_root_directory)
                    ELSE file_path
    IN IF put_all_files_in_shared_root_dir /\ common_root_directory # None
       THEN pathjoin(basename(common_root_directory), rel_path)
       ELSE rel_path

\* the name zip_handler.write stores for an arcname and namelist() returns:
\* the arcname normalised, without its leading separators
zipinfo_filename(arcname) ==
    LET n == normpath(arcname)
    IN SubSeq(n, LeadingSlashes(n) + 1, Len(n))

\* ------------------------------------------------------------- the run
VARIABLES
    fs,                  \* the source tree: file path -> [kind, data]
    unreadable,          \* directories os.walk cannot list
    args_input_paths,    \* args.input_paths, as typed
    args_output_path,    \* args.output_path (-o), None when not given
    root_directory,      \* args.root_directory (-d)
    ignore_dotfiles,     \* args.ignore_dotfiles
    ignore_windows_volume_folders,
    pc,                  \* where main / create_zip stands
    input_paths,         \* the absolute input paths
    output_path,         \* where the archive is created, None before main sets it
    inputIdx,            \* index of `path` in the loop of create_zip
    file_list,           \* files of the current input, sorted
    fileIdx,             \* index of `file_path` in the hashing / writing loop
    directory_hash_dict, \* hash dict of the current input
    file_hash_dict,      \* run-wide source hash dict
    total_file_count,
    archive,             \* the file at output_path: "absent", "open", "closed", "corrupt"
    zipEntries,          \* the entries of the archive, in the order written
    zip_hash_dict,
    zip_file_count,
    reportWritten,       \* whether <timestamp>_verizip_error.txt exists
    reportLines,         \* its lines
    outcome,             \* how the run ended
    exitStatus,          \* exit status of the process
    changes,             \* how often the environment has interfered
    srcLog               \* history: what get_hash_dict saw, file by file

runVars == <<fs, unreadable, args_input_paths, args_output_path, root_directory,
             ignore_dotfiles, ignore_windows_volume_folders, pc, input_paths,
             output_path, inputIdx, file_list,
             fileIdx, directory_hash_dict, file_hash_dict, total_file_count,
             archive, zipEntries, zip_hash_dict, zip_file_count, reportWritten,
             reportLines, outcome, exitStatus, changes, srcLog>>

\* ---- the source tree the runs work on
P_a == <<"", "a">>
P_ax == <<"", "a", "x">>
P_ay == <<"", "a", "y">>
P_ah == <<"", "a", ".h">>
P_ar == <<"", "a", "$RECYCLE.BIN">>
P_arz == <<"", "a", "$RECYCLE.BIN", "z">>
P_b == <<"", "b">>
P_bd == <<"", "b", ".d">>
P_bdf == <<"", "b", ".d", "f">>
P_by == <<"", "b", "y">>
P_nope == <<"", "nope">>
P_slash_ax == <<"", "", "a", "x">>
\* two places for the archive: outside the tree, and inside the directory /b
P_out == <<"", "out", "o.zip">>
P_bo == <<"", "b", "o.zip">>
\* the working directory of the process
Cwd == P_b
\* run_time_str, the start of the run as text
run_time_str == "2026-11-05_15-50-28"

Dirs == {P_a, P_ar, P_b, P_bd}
\* all files of the tree, in the order sorted() gives their path strings
SortedFiles == <<P_arz, P_ah, P_ax, P_ay, P_bdf, P_by>>
Files == Range(SortedFiles)
\* the names whose first character is "."
DotNames == {".h", ".d", ".h.zip"}
EXCLUDE_FOLDERS == {"$RECYCLE.BIN", "System Volume Information"}
\* what may be typed as an input path
CandidateInputs == {P_a, P_b, P_ah, P_slash_ax, P_nope}
\* the files the environment may modify or delete during the run
Volatile == {P_ax}
Contents == {1, 2}

\* hashlib: the digest of a content (collisions are outside the model)
DigestOf == <<"d1", "d2">>
\* the bytes of the archive file while it is being written are -n, n the
\* number of members flushed to it so far (0: an empty file)
sha1(data) ==
    IF data \in DOMAIN DigestOf THEN DigestOf[data] ELSE "z" \o ToString(-data)
Digests == Range(DigestOf)

\* the file a path string names: repeated leading slashes name the same file
RealPath(p) == <<"">> \o NonEmpty(p)

isdir(p) == RealPath(p) \in Dirs
\* the file output_path names: a relative path is resolved against Cwd
OutputRealPath ==
    RealPath(normpath(IF output_path[1] = "" THEN output_path
                      ELSE Cwd \o output_path))

\* the archive, once the ZipFile of create_zip has created it, is a regular
\* file of the file system like any other
IsArchive(p) ==
    archive # "absent" /\ output_path # None /\ RealPath(p) = OutputRealPath

isfile(p) ==
    \/ IsArchive(p)
    \/ RealPath(p) \in Files /\ fs[RealPath(p)].kind = "file"
exists(p) ==
    \/ IsArchive(p)
    \/ RealPath(p) \in Files /\ fs[RealPath(p)].kind # "absent"

\* what open(path, "rb").read() returns: of the archive, the members flushed
\* to it so far
ReadFile(p) ==
    IF IsArchive(p) THEN 0 - Len(zipEntries) ELSE fs[RealPath(p)].data

\* verizip.py: get_missing_sources
get_missing_sources(source_paths) ==
    SelectSeq(source_paths, LAMBDA source_path :
                  ~isdir(source_path) /\ ~isfile(source_path))

\* ---- os.walk with the pruning of get_file_paths_and_size
SubDirNames(root) == {d[Len(d)] : d \in {g \in Dirs : Front(g) = RealPath(root)}}
FileNames(root) ==
    {f[Len(f)] : f \in {g \in Files : Front(g) = RealPath(root)
                                       /\ fs[g].kind # "absent"}}
    \cup (IF archive # "absent" /\ output_path # None
             /\ Front(OutputRealPath) = RealPath(root)
          THEN {Last(OutputRealPath)} ELSE {})

WalkFilenames(root) ==
    IF ignore_dotfiles THEN FileNames(root) \ DotNames ELSE FileNames(root)

WalkDirs(root) ==
    LET dirs == IF ignore_dotfiles THEN SubDirNames(root) \ DotNames
                ELSE SubDirNames(root)
    IN IF ignore_windows_volume_folders THEN dirs \ EXCLUDE_FOLDERS ELSE dirs

RECURSIVE WalkFiles(_)
WalkFiles(root) ==
    {pathjoin(root, <<name>>) : name \in WalkFilenames(root)}
    \cup UNION {WalkFiles(pathjoin(root, <<d>>)) : d \in WalkDirs(root)}

\* walk_error is called: some directory that is descended into cannot be listed
RECURSIVE WalkFails(_)
WalkFails(root) ==
    \/ RealPath(root) \in unreadable
    \/ \E d \in WalkDirs(root) : WalkFails(pathjoin(root, <<d>>))

\* the place of a path in sorted(): every name the archive can have in /b
\* sorts after ".d/f" and before "y", so the archive takes the place of P_by
\* and P_by comes right after it
Rank(p) ==
    IF RealPath(p) \in Files
    THEN CHOOSE i \in 1..Len(SortedFiles) : SortedFiles[i] = RealPath(p)
    ELSE CHOOSE i \in 1..Len(SortedFiles) : SortedFiles[i] = P_by

Before(p, q) ==
    \/ Rank(p) < Rank(q)
    \/ Rank(p) = Rank(q) /\ (RealPath(q) \in Files \/ RealPath(p) \notin Files)

RECURSIVE SortPaths(_)
SortPaths(S) ==
    IF S = {} THEN <<>>
    ELSE LET first == CHOOSE p \in S : \A q \in S : Before(p, q)
         IN <<first>> \o SortPaths(S \ {first})

\* verizip.py: get_file_paths_and_size([path], ...): the sorted file list
\* (the byte total is only printed)
get_file_paths_and_size(path) == SortPaths(WalkFiles(path))

\* ---- hash dicts: digest -> list of relative paths
EmptyDict == [d \in {} |-> <<>>]

DictAppend(dict, hash_value, rel_path) ==
    [d \in DOMAIN dict \cup {hash_value} |->
        IF d = hash_value
        THEN (IF d \in DOMAIN dict THEN Append(dict[d], rel_path) ELSE <<rel_path>>)
        ELSE dict[d]]

\* faulty variant of MergeHashDict: a digest seen again overwrites the paths it had
MergeHashDict_overwrite(into, from) ==
    [d \in DOMAIN into \cup DOMAIN from |->
        IF d \in DOMAIN from THEN from[d] ELSE into[d]]

\* create_zip: merging the hash dict of one input into the run-wide one
MergeHashDict(into, from) ==
    [d \in DOMAIN into \cup DOMAIN from |->
        IF d \notin DOMAIN from THEN into[d]
        ELSE IF d \notin DOMAIN into THEN from[d]
        ELSE into[d] \o from[d]]

\* ---- state of the two helper specifications (SpecRoot, SpecSafe)
VARIABLES
    crPaths,             \* SpecRoot: the paths handed to get_common_root_directory
    crResult,            \* SpecRoot: what it returned
    crPc,
    sfFiles,             \* SpecSafe: the names at which a regular file exists
    sfRequest,           \* SpecSafe: the path get_safe_file_path was called with
    file_path,           \* SpecSafe: its local file_path
    filename_suffix,     \* SpecSafe: its local filename_suffix
    sfPc

rootVars == <<crPaths, crResult, crPc>>
safeVars == <<sfFiles, sfRequest, file_path, filename_suffix, sfPc>>
cfgVars == <<unreadable, args_input_paths, args_output_path, root_directory,
             ignore_dotfiles, ignore_windows_volume_folders>>
vars == <<runVars, rootVars, safeVars>>

RootIdle == crPaths = <<>> /\ crResult = None /\ crPc = "idle"
SafeIdle ==
    /\ sfFiles = {}
    /\ sfRequest = [dir |-> "", stem |-> <<0>>, ext |-> ""]
    /\ file_path = [dir |-> "", stem |-> <<0>>, ext |-> ""]
    /\ filename_suffix = 2
    /\ sfPc = "idle"

\* ---- the run: main and create_zip
SeqsUpTo(S, n) == UNION {[1..k -> S] : k \in 1..n}

RegularFile(data) == [kind |-> "file", data |-> data]

RunInit ==
    /\ \E by \in {RegularFile(1), [kind |-> "pipe", data |-> 1]} :
          /\ fs = [f \in Files |->
                      IF f = P_by THEN by
                      ELSE IF f \in {P_ax, P_ay} THEN RegularFile(1)
                      ELSE RegularFile(2)]
          /\ unreadable \in IF by = RegularFile(1) THEN {{}, {P_b}} ELSE {{}}
    /\ args_input_paths \in SeqsUpTo(CandidateInputs, MaxInputs)
    /\ args_output_path = P_out
    /\ root_directory \in BOOLEAN
    /\ ignore_dotfiles \in BOOLEAN
    /\ ignore_windows_volume_folders \in BOOLEAN
    /\ pc = "main"
    /\ input_paths = <<>>
    /\ output_path = None
    /\ inputIdx = 1
    /\ file_list = <<>>
    /\ fileIdx = 1
    /\ directory_hash_dict = EmptyDict
    /\ file_hash_dict = EmptyDict
    /\ total_file_count = 0
    /\ archive = "absent"
    /\ zipEntries = <<>>
    /\ zip_hash_dict = EmptyDict
    /\ zip_file_count = 0
    /\ reportWritten = FALSE
    /\ reportLines = {}
    /\ outcome = "running"
    /\ exitStatus = -1
    /\ changes = 0
    /\ srcLog = <<>>

\* create_zip, lines 281-284
CommonRoot ==
    IF Len(input_paths) = 1 THEN dirname(input_paths[1])
    ELSE get_common_root_directory(input_paths)

\* get_safe_file_path(os.path.join(file_dir, noext + ext)), with file_path the
\* candidate of the current iteration of its loop
RECURSIVE get_safe_file_path(_, _, _, _, _)
get_safe_file_path(file_dir, noext, ext, path, suffix) ==
    IF ~isfile(normpath(IF path[1] = "" THEN path ELSE Cwd \o path))
    THEN path
    ELSE get_safe_file_path(file_dir, noext, ext,
             pathjoin(file_dir, <<noext \o "_" \o ToString(suffix) \o ext>>),
             suffix + 1)

\* main, lines 409-423: where the archive goes (not run from Automator)
OutputPath(paths) ==
    IF args_output_path # None THEN args_output_path
    ELSE LET output_directory == <<".">>
             noext == IF Len(paths) = 1 THEN Last(paths[1])
                      ELSE run_time_str \o "_archive"
         IN get_safe_file_path(output_directory, noext, ".zip",
                pathjoin(output_directory, <<noext \o ".zip">>), 2)

\* main, lines 391-434, and the opening of the archive in create_zip, line 279
Main ==
    /\ pc = "main"
    /\ IF get_missing_sources(args_input_paths) # <<>>
       THEN /\ outcome' = "MissingInput"
            /\ exitStatus' = 0
            /\ pc' = "done"
            /\ UNCHANGED <<input_paths, output_path, archive>>
       ELSE /\ input_paths' = [i \in 1..Len(args_input_paths) |->
                                  abspath(args_input_paths[i])]
            /\ output_path' = OutputPath(input_paths')
            /\ archive' = "open"
            /\ pc' = "input"
            /\ UNCHANGED <<outcome, exitStatus>>
    /\ UNCHANGED <<fs, cfgVars, inputIdx, file_list, fileIdx, directory_hash_dict,
                   file_hash_dict, total_file_count, zipEntries, zip_hash_dict,
                   zip_file_count, reportWritten, reportLines, changes, srcLog>>
    /\ UNCHANGED <<rootVars, safeVars>>

\* an exception leaves create_zip: the with-block closes the archive, main's
\* except clause (lines 436-453) writes the report, removes the archive, returns
Abort ==
    /\ reportWritten' = TRUE
    /\ reportLines' = {[kind |-> "exception", digest |-> "", paths |-> <<>>]}
    /\ archive' = "absent"
    /\ outcome' = "CreateFailed"
    /\ exitStatus' = 0
    /\ pc' = "done"
    /\ UNCHANGED <<inputIdx, file_list, fileIdx, directory_hash_dict, file_hash_dict,
                   total_file_count, zipEntries, srcLog>>

\* the loop of create_zip moves past the input at inputIdx; after the last
\* input the with-block ends and the archive is finalised (line 454)
AfterInput ==
    IF inputIdx = Len(input_paths)
    THEN /\ pc' = "finalized"
         /\ archive' = "closed"
         /\ UNCHANGED inputIdx
    ELSE /\ pc' = "input"
         /\ inputIdx' = inputIdx + 1
         /\ UNCHANGED archive

\* create_zip, lines 280-295 and 313-314: the next input is enumerated
BeginInput ==
    /\ pc = "input"
    /\ LET path == input_paths[inputIdx] IN
       IF isdir(path) /\ WalkFails(path)
       THEN Abort
       ELSE LET files == IF isdir(path) THEN get_file_paths_and_size(path)
                         ELSE <<path>>
            IN /\ file_list' = files
               /\ total_file_count' = total_file_count + Len(files)
               /\ fileIdx' = 1
               /\ directory_hash_dict' = EmptyDict
               /\ IF files = <<>>
                  THEN AfterInput
                  ELSE pc' = "hash" /\ UNCHANGED <<inputIdx, archive>>
               /\ UNCHANGED <<file_hash_dict, zipEntries, srcLog, reportWritten,
                              reportLines, outcome, exitStatus>>
    /\ UNCHANGED <<fs, cfgVars, input_paths, output_path, zip_hash_dict,
                   zip_file_count, changes>>
    /\ UNCHANGED <<rootVars, safeVars>>

\* get_hash_dict, one iteration of its loop (lines 198-236); after the last
\* file create_zip merges the dict into file_hash_dict (lines 301-305, 320-324)
HashFile ==
    /\ pc = "hash"
    /\ LET path == file_list[fileIdx] IN
       IF ~isfile(path)
       THEN Abort
       ELSE LET hash_value == sha1(ReadFile(path))
                rel_path == hash_dict_rel_path(path, CommonRoot, root_directory)
                dict == DictAppend(directory_hash_dict, hash_value, rel_path)
            IN /\ srcLog' = Append(srcLog, [path |-> path, rel |-> rel_path,
                                            digest |-> hash_value])
               /\ directory_hash_dict' = dict
               /\ IF fileIdx = Len(file_list)
                  THEN /\ file_hash_dict' = MergeHashDict(file_hash_dict, dict)
                       /\ fileIdx' = 1
                       /\ pc' = "write"
                  ELSE /\ fileIdx' = fileIdx + 1
                       /\ UNCHANGED <<file_hash_dict, pc>>
               /\ UNCHANGED <<inputIdx, file_list, total_file_count, archive,
                              zipEntries, reportWritten, reportLines, outcome,
                              exitStatus>>
    /\ UNCHANGED <<fs, cfgVars, input_paths, output_path, zip_hash_dict,
                   zip_file_count, changes>>
    /\ UNCHANGED <<rootVars, safeVars>>

\* add_files_to_zip, one iteration of its loop (lines 92-118)
WriteFile ==
    /\ pc = "write"
    /\ LET path == file_list[fileIdx] IN
       IF ~exists(path)
       THEN Abort
       ELSE /\ zipEntries' = Append(zipEntries,
                  [name |-> zipinfo_filename(
                                zip_arcname(path, CommonRoot, root_directory)),
                   data |-> ReadFile(path)])
            /\ IF fileIdx = Len(file_list)
               THEN AfterInput /\ UNCHANGED fileIdx
               ELSE fileIdx' = fileIdx + 1 /\ UNCHANGED <<pc, inputIdx, archive>>
            /\ UNCHANGED <<file_list, directory_hash_dict, file_hash_dict,
                           total_file_count, srcLog, reportWritten, reportLines,
                           outcome, exitStatus>>
    /\ UNCHANGED <<fs, cfgVars, input_paths, output_path, zip_hash_dict,
                   zip_file_count, changes>>
    /\ UNCHANGED <<rootVars, safeVars>>

\* ---- the environment: other processes touching the sources or the archive
EnvFileVars == <<cfgVars, pc, input_paths, output_path, inputIdx, file_list,
                 fileIdx,
                 directory_hash_dict, file_hash_dict, total_file_count, archive,
                 zipEntries, zip_hash_dict, zip_file_count, reportWritten,
                 reportLines, outcome, exitStatus, srcLog>>

\* a source file is rewritten with other bytes while the run is under way
ModifyFile ==
    /\ pc \in {"input", "hash", "write"}
    /\ changes < MaxChanges
    /\ \E f \in Volatile : \E c \in Contents :
          /\ fs[f].kind = "file"
          /\ c # fs[f].data
          /\ fs' = [fs EXCEPT ![f] = RegularFile(c)]
    /\ changes' = changes + 1
    /\ UNCHANGED EnvFileVars
    /\ UNCHANGED <<rootVars, safeVars>>

\* a source file is deleted while the run is under way
DeleteFile ==
    /\ pc \in {"input", "hash", "write"}
    /\ changes < MaxChanges
    /\ \E f \in Volatile :
          /\ fs[f].kind = "file"
          /\ fs' = [fs EXCEPT ![f] = [kind |-> "absent", data |-> 1]]
    /\ changes' = changes + 1
    /\ UNCHANGED EnvFileVars
    /\ UNCHANGED <<rootVars, safeVars>>

\* the finalised archive is changed before it is re-opened: either an entry is
\* replaced by a well-formed entry with other bytes, or raw bytes of an entry
\* are flipped, which the entry's CRC-32 no longer matches
MutateArchive ==
    /\ pc = "finalized"
    /\ archive = "closed"
    /\ changes < MaxChanges
    /\ zipEntries # <<>>
    /\ \/ /\ \E i \in 1..Len(zipEntries) : \E c \in Contents :
                /\ c # zipEntries[i].data
                /\ zipEntries' = [zipEntries EXCEPT ![i].data = c]
          /\ UNCHANGED archive
       \/ /\ archive' = "corrupt"
          /\ UNCHANGED zipEntries
    /\ changes' = changes + 1
    /\ UNCHANGED <<fs, cfgVars, pc, input_paths, output_path, inputIdx, file_list,
                   fileIdx,
                   directory_hash_dict, file_hash_dict, total_file_count,
                   zip_hash_dict, zip_file_count, reportWritten, reportLines,
                   outcome, exitStatus, srcLog>>
    /\ UNCHANGED <<rootVars, safeVars>>

\* ---- re-verification, main lines 456-499
\* zip_handler.open(name): the archive member of that name; of several members
\* with one name the one written last
ZipRead(entries, name) ==
    LET i == CHOOSE k \in 1..Len(entries) :
                 /\ entries[k].name = name
                 /\ \A m \in (k + 1)..Len(entries) : entries[m].name # name
    IN entries[i].data

\* verizip.py: hash_file_in_zip
hash_file_in_zip(entries, file_path_in_zip) == sha1(ZipRead(entries, file_path_in_zip))

\* the loop over zip_handler.namelist(), lines 461-469
RECURSIVE BuildZipHashDict(_, _, _)
BuildZipHashDict(entries, k, dict) ==
    IF k > Len(entries) THEN dict
    ELSE BuildZipHashDict(entries, k + 1,
             DictAppend(dict, hash_file_in_zip(entries, entries[k].name),
                        entries[k].name))

Count(s, x) == Cardinality({i \in 1..Len(s) : s[i] = x})
\* sorted(a) == sorted(b)
SortedEqual(a, b) ==
    /\ Len(a) = Len(b)
    /\ \A x \in Range(a) \cup Range(b) : Count(a, x) = Count(b, x)

\* faulty variant of VerifyOk: only the digests are compared, not their paths
VerifyOk_digestsOnly(source_dict, source_count, zip_dict, zip_count) ==
    DOMAIN source_dict = DOMAIN zip_dict /\ source_count = zip_count

\* the condition of line 472
VerifyOk(source_dict, source_count, zip_dict, zip_count) ==
    source_dict = zip_dict /\ source_count = zip_count

\* the lines written to the error log, lines 480-491
DiffLines(source_dict, zip_dict) ==
    {[kind |-> "absent", digest |-> d, paths |-> source_dict[d]] :
        d \in DOMAIN source_dict \ DOMAIN zip_dict}
    \cup
    {[kind |-> "differ", digest |-> d, paths |-> source_dict[d]] :
        d \in {e \in DOMAIN source_dict \cap DOMAIN zip_dict :
                  ~SortedEqual(source_dict[e], zip_dict[e])}}

ReVerify ==
    /\ pc = "finalized"
    /\ IF archive = "corrupt"
       THEN \* reading the damaged member raises BadZipfile; nothing catches it
            /\ outcome' = "Uncaught"
            /\ exitStatus' = 1
            /\ UNCHANGED <<archive, zip_hash_dict, zip_file_count, reportWritten,
                           reportLines>>
       ELSE LET zhd == BuildZipHashDict(zipEntries, 1, EmptyDict)
                count == Len(zipEntries)
            IN /\ zip_hash_dict' = zhd
               /\ zip_file_count' = count
               /\ exitStatus' = 0
               /\ IF VerifyOk(file_hash_dict, total_file_count, zhd, count)
                  THEN /\ outcome' = "Verified"
                       /\ UNCHANGED <<archive, reportWritten, reportLines>>
                  ELSE /\ outcome' = "VerifyFailed"
                       /\ reportWritten' = TRUE
                       /\ reportLines' = DiffLines(file_hash_dict, zhd)
                       /\ archive' = "absent"
    /\ pc' = "done"
    /\ UNCHANGED <<fs, cfgVars, input_paths, output_path, inputIdx, file_list, fileIdx,
                   directory_hash_dict, file_hash_dict, total_file_count,
                   zipEntries, changes, srcLog>>
    /\ UNCHANGED <<rootVars, safeVars>>

Init == RunInit /\ RootIdle /\ SafeIdle

Next ==
    \/ Main
    \/ BeginInput
    \/ HashFile
    \/ WriteFile
    \/ ReVerify
    \/ ModifyFile
    \/ DeleteFile
    \/ MutateArchive

Spec == Init /\ [][Next]_vars

Terminal == pc = "done"
Failed == outcome \in {"CreateFailed", "VerifyFailed"}

\* ================================================================ claims
Compared == Terminal /\ outcome \in {"Verified", "VerifyFailed"}

\* the precondition of the round trip: every input exists, every file of the
\* tree is a regular file, every directory can be listed, nothing changes
SourcesRegularAndStable ==
    /\ changes = 0
    /\ unreadable = {}
    /\ \A f \in Files : fs[f].kind = "file"
    /\ \A i \in 1..Len(args_input_paths) : args_input_paths[i] # P_nope

\* C1: round-trip integrity. A run over inputs that are regular files, or
\* directories holding only regular files, none of which changes during the
\* run, ends in Verified, and the hash dict rebuilt from the archive is
\* exactly the source hash dict, whatever the flags are.
C1_RoundTrip ==
    (Terminal /\ SourcesRegularAndStable)
        => (outcome = "Verified" /\ zip_hash_dict = file_hash_dict)

\* equality of two hash dicts as mappings digest -> multiset of paths
SameIndex(a, b) ==
    /\ DOMAIN a = DOMAIN b
    /\ \A d \in DOMAIN a : SortedEqual(a[d], b[d])

\* C2: a run ends in Verified (success reported, archive kept) exactly when
\* the source and archive hash dicts have the same digests, the same multiset
\* of paths per digest, and the two file counts agree; every other run that
\* reaches the comparison ends in Failed with the archive removed.
C2_VerifiedIff ==
    /\ Compared =>
          /\ (outcome = "Verified") <=>
                (/\ SameIndex(file_hash_dict, zip_hash_dict)
                 /\ total_file_count = zip_file_count)
          /\ (outcome = "Verified") => (archive = "closed" /\ ~reportWritten)
          /\ (outcome # "Verified") => (Failed /\ archive = "absent")
    /\ (outcome = "Verified") => Compared

\* C2 witness: a verified run over several files
C2_Witness ==
    /\ Compared
    /\ outcome = "Verified"
    /\ \E d \in DOMAIN zip_hash_dict : Len(zip_hash_dict[d]) >= 2

\* C3: in every terminal state other than Verified no archive file is left at
\* the output path.
C3_NoArchiveLeft ==
    (Terminal /\ outcome # "Verified") => archive = "absent"

\* C4: every fatal path ends the run with a non-zero exit status and with an
\* error-report file written.
C4_FatalPaths ==
    (Terminal /\ outcome \in {"MissingInput", "CreateFailed", "VerifyFailed"})
        => (exitStatus # 0 /\ reportWritten)

\* some entry of the finalised archive does not hold the bytes that were
\* hashed for its source file
SomeEntryDiffers ==
    \/ archive = "corrupt"
    \/ \E i \in 1..Len(zipEntries) : sha1(zipEntries[i].data) # srcLog[i].digest

\* C5: mismatch detection. When the bytes of an archive entry differ from the
\* bytes hashed for its source file, the run ends in Failed and the report
\* holds one line per source digest missing from the archive, one line per
\* digest whose sorted path lists differ, and so a line naming the affected
\* source digest.
C5_MismatchDetected ==
    (Terminal /\ outcome # "CreateFailed" /\ SomeEntryDiffers) =>
        /\ Failed
        /\ reportWritten
        /\ reportLines = DiffLines(file_hash_dict, zip_hash_dict)
        /\ \A i \in 1..Len(zipEntries) :
              sha1(zipEntries[i].data) # srcLog[i].digest
                  => \E line \in reportLines : line.digest = srcLog[i].digest

\* the inputs whose hash dicts have been merged into file_hash_dict
AllMerged == pc \in {"input", "write", "finalized"} \/ Compared

\* C6: duplicate content. Two distinct source files with the same bytes, from
\* one input or from two, are both listed under their digest in the source
\* hash dict, and (the sources being unchanged) both entries are listed under
\* it in the archive hash dict: merging concatenates, it never overwrites.
C6_Duplicates ==
    \A i \in 1..Len(srcLog) : \A j \in 1..Len(srcLog) :
        (/\ RealPath(srcLog[i].path) # RealPath(srcLog[j].path)
         /\ srcLog[i].digest = srcLog[j].digest)
        =>
        /\ AllMerged =>
              /\ srcLog[i].digest \in DOMAIN file_hash_dict
              /\ {srcLog[i].rel, srcLog[j].rel}
                     \subseteq Range(file_hash_dict[srcLog[i].digest])
        /\ (Compared /\ changes = 0) =>
              /\ srcLog[i].digest \in DOMAIN zip_hash_dict
              /\ {zipEntries[i].name, zipEntries[j].name}
                     \subseteq Range(zip_hash_dict[srcLog[i].digest])

\* C6 witness: /a/x and /b/y hold the same bytes and come from two inputs
C6_Witness ==
    /\ Compared
    /\ changes = 0
    /\ \E i \in 1..Len(srcLog) : \E j \in 1..Len(srcLog) :
          /\ RealPath(srcLog[i].path) = P_ax
          /\ RealPath(srcLog[j].path) = P_by
          /\ srcLog[i].digest = srcLog[j].digest
          /\ Len(file_hash_dict[srcLog[i].digest]) >= 2
          /\ Len(zip_hash_dict[srcLog[i].digest]) >= 2

\* C7: relative-name agreement. The name of every archive entry, as the
\* re-opened archive lists it, is the relative path get_hash_dict recorded
\* for the same file, for every common root and either value of the flag.
C7_NamesAgree ==
    \A i \in 1..Len(zipEntries) : zipEntries[i].name = srcLog[i].rel

HasDotName(p) == \E k \in 1..Len(p) : p[k] \in DotNames
BelowReservedFolder(p) == \E k \in 1..(Len(p) - 1) : p[k] \in EXCLUDE_FOLDERS
BelowInput(f, input) ==
    /\ Len(f) > Len(RealPath(input))
    /\ SubSeq(f, 1, Len(RealPath(input))) = RealPath(input)

\* C9: exclusion rules. With ignore_dotfiles nothing whose name starts with
\* "." and nothing below such a directory is enumerated, hashed or archived;
\* with ignore_windows_volume_folders nothing below a reserved folder is;
\* what no enabled rule excludes is included. This holds for every input,
\* also for an input that is a single file.
C9_Exclusion ==
    /\ ignore_dotfiles =>
          /\ \A i \in 1..Len(srcLog) : ~HasDotName(srcLog[i].path)
          /\ \A i \in 1..Len(zipEntries) : ~HasDotName(zipEntries[i].name)
    /\ ignore_windows_volume_folders =>
          /\ \A i \in 1..Len(srcLog) : ~BelowReservedFolder(srcLog[i].path)
          /\ \A i \in 1..Len(zipEntries) : ~BelowReservedFolder(zipEntries[i].name)
    /\ (pc \in {"hash", "write"} /\ isdir(input_paths[inputIdx])) =>
          \A f \in Files :
              (BelowInput(f, input_paths[inputIdx]) /\ fs[f].kind # "absent") =>
                  \/ ignore_dotfiles /\ HasDotName(f)
                  \/ ignore_windows_volume_folders /\ BelowReservedFolder(f)
                  \/ \E i \in 1..Len(file_list) : RealPath(file_list[i]) = f

\* ================================== SpecRoot: get_common_root_directory
RootNames == {"", "a", "b"}
\* the path strings of at most MaxDepth components over RootNames
RootPathPool == SeqsUpTo(RootNames, MaxDepth)

RootInit ==
    /\ crPaths \in {<<>>} \cup SeqsUpTo(RootPathPool, MaxPaths)
    /\ crResult = None
    /\ crPc = "call"

RunIdle ==
    /\ fs = [f \in Files |-> RegularFile(1)]
    /\ unreadable = {}
    /\ args_input_paths = <<>>
    /\ args_output_path = None
    /\ root_directory = FALSE
    /\ ignore_dotfiles = FALSE
    /\ ignore_windows_volume_folders = FALSE
    /\ pc = "idle"
    /\ input_paths = <<>>
    /\ output_path = None
    /\ inputIdx = 1
    /\ file_list = <<>>
    /\ fileIdx = 1
    /\ directory_hash_dict = EmptyDict
    /\ file_hash_dict = EmptyDict
    /\ total_file_count = 0
    /\ archive = "absent"
    /\ zipEntries = <<>>
    /\ zip_hash_dict = EmptyDict
    /\ zip_file_count = 0
    /\ reportWritten = FALSE
    /\ reportLines = {}
    /\ outcome = "running"
    /\ exitStatus = -1
    /\ changes = 0
    /\ srcLog = <<>>

\* a call of get_common_root_directory(paths, "/")
RootCall ==
    /\ crPc = "call"
    /\ crResult' = get_common_root_directory(crPaths)
    /\ crPc' = "returned"
    /\ UNCHANGED <<crPaths, runVars, safeVars>>

InitRoot == RootInit /\ RunIdle /\ SafeIdle
NextRoot == RootCall
SpecRoot == InitRoot /\ [][NextRoot]_vars

\* all of the paths have the components comps as their leading components
SharedPrefix(paths, comps) ==
    \A k \in 1..Len(paths) :
        /\ Len(comps) <= Len(paths[k])
        /\ SubSeq(paths[k], 1, Len(comps)) = comps

\* the component-wise prefixes all of the paths share
SharedPrefixes(paths) ==
    {SubSeq(paths[1], 1, n) : n \in {m \in 0..Len(paths[1]) :
                                        SharedPrefix(paths, SubSeq(paths[1], 1, m))}}

LongestSharedPrefix(paths) ==
    CHOOSE c \in SharedPrefixes(paths) : \A e \in SharedPrefixes(paths) : Len(e) <= Len(c)

\* C8: get_common_root_directory returns the longest component-wise prefix
\* shared by all the paths, rejoined with the separator: every path starts
\* with the components of the result, no longer prefix is shared by all, and
\* the result is None exactly when the rejoined prefix is the empty string.
C8_CommonRoot ==
    (crPc = "returned" /\ crPaths # <<>>) =>
        /\ (crResult = None) <=> (Join(LongestSharedPrefix(crPaths)) = EmptyStr)
        /\ (crResult # None) =>
              /\ SharedPrefix(crPaths, crResult)
              /\ \A c \in SharedPrefixes(crPaths) : Len(c) <= Len(crResult)
              /\ crResult = Join(LongestSharedPrefix(crPaths))

\* C8 witness: "a/a" and "a/b" agree on "a" and differ below it
C8_Witness ==
    /\ crPc = "returned"
    /\ crPaths = << <<"a", "a">>, <<"a", "b">> >>
    /\ crResult = <<"a">>

\* ================================= SpecSelf: the archive among the sources
\* Runs in an undisturbed tree of regular files, started in Cwd, with the
\* archive at its default place ("." of Cwd), inside the directory /b, or
\* outside the tree.
SelfInit ==
    /\ fs = [f \in Files |-> IF f \in {P_ax, P_ay} THEN RegularFile(1)
                              ELSE RegularFile(2)]
    /\ unreadable = {}
    /\ args_input_paths \in SeqsUpTo(CandidateInputs, MaxInputs)
    /\ args_output_path \in {None, P_bo, P_out}
    /\ root_directory \in BOOLEAN
    /\ ignore_dotfiles \in BOOLEAN
    /\ ignore_windows_volume_folders \in BOOLEAN
    /\ pc = "main"
    /\ input_paths = <<>>
    /\ output_path = None
    /\ inputIdx = 1
    /\ file_list = <<>>
    /\ fileIdx = 1
    /\ directory_hash_dict = EmptyDict
    /\ file_hash_dict = EmptyDict
    /\ total_file_count = 0
    /\ archive = "absent"
    /\ zipEntries = <<>>
    /\ zip_hash_dict = EmptyDict
    /\ zip_file_count = 0
    /\ reportWritten = FALSE
    /\ reportLines = {}
    /\ outcome = "running"
    /\ exitStatus = -1
    /\ changes = 0
    /\ srcLog = <<>>

InitSelf == SelfInit /\ RootIdle /\ SafeIdle
NextSelf ==
    \/ Main
    \/ BeginInput
    \/ HashFile
    \/ WriteFile
    \/ ReVerify
SpecSelf == InitSelf /\ [][NextSelf]_vars

\* the path names the file the archive is created at
IsOutputPath(p) == output_path # None /\ RealPath(p) = OutputRealPath

\* C11: the archive being created is never one of its own sources. In every
\* run, no file enumerated by get_file_paths_and_size, and no file hashed by
\* get_hash_dict, is the output archive path, even when the output path lies
\* inside an input directory.
C11_ArchiveNotASource ==
    /\ \A i \in 1..Len(file_list) : ~IsOutputPath(file_list[i])
    /\ \A i \in 1..Len(srcLog) : ~IsOutputPath(srcLog[i].path)

\* the archive is kept as verified although it holds a member made of its
\* own unfinished bytes
SelfMemberVerified ==
    /\ outcome = "Verified"
    /\ \E i \in 1..Len(zipEntries) : zipEntries[i].data <= 0

\* ========================================== SpecSafe: get_safe_file_path
\* A file path is [dir, stem, ext]: os.path.dirname gives dir, os.path.splitext
\* of the basename gives stem and ext. A stem is a sequence of tokens: 0 is
\* the text "out", a token k >= 2 is the text "_k"; <<0, 2>> is "out_2".
SafeName(dir, stem, ext) == [dir |-> dir, stem |-> stem, ext |-> ext]

\* the names at which a regular file may exist before the call
SafePool ==
    {SafeName("d", <<0>>, ".zip"), SafeName("d", <<0>>, ""),
     SafeName("e", <<0>>, ".zip"), SafeName("d", <<0, 2, 2>>, ".zip")}
    \cup {SafeName("d", <<0, k>>, ".zip") : k \in 2..MaxSuffix}

SafeRequests ==
    {SafeName("d", <<0>>, ".zip"), SafeName("d", <<0>>, ""),
     SafeName("d", <<0, 2>>, ".zip")}

\* line 244: os.path.isfile(file_path)
safe_isfile(path) == path \in sfFiles

\* line 242: os.path.splitext(os.path.basename(file_path))[0]
file_basename_noext == sfRequest.stem

\* faulty variant of NextSafePath: the suffix is appended to the stem of the current
\* candidate instead of the stem of the requested path
NextSafePath_fromCurrent(path, noext, suffix) ==
    SafeName(path.dir, Append(path.stem, suffix), path.ext)

\* lines 245-252: the next candidate path
NextSafePath(path, noext, suffix) ==
    SafeName(path.dir, Append(noext, suffix), path.ext)

SafeInit ==
    /\ sfFiles \in SUBSET SafePool
    /\ sfRequest \in SafeRequests
    /\ file_path = sfRequest
    /\ filename_suffix = 2
    /\ sfPc = "loop"

\* one iteration of the while loop, lines 244-253
SafeStep ==
    /\ sfPc = "loop"
    /\ safe_isfile(file_path)
    /\ file_path' = NextSafePath(file_path, file_basename_noext, filename_suffix)
    /\ filename_suffix' = filename_suffix + 1
    /\ UNCHANGED <<sfFiles, sfRequest, sfPc, runVars, rootVars>>

\* the loop ends and file_path is returned, line 254
SafeReturn ==
    /\ sfPc = "loop"
    /\ ~safe_isfile(file_path)
    /\ sfPc' = "returned"
    /\ UNCHANGED <<sfFiles, sfRequest, file_path, filename_suffix, runVars, rootVars>>

InitSafe == SafeInit /\ RunIdle /\ RootIdle
NextSafe == SafeStep \/ SafeReturn
\* the function runs to its end once called: its loop is not interrupted
SpecSafe == InitSafe /\ [][NextSafe]_vars /\ WF_vars(NextSafe)

\* "<stem>_k<ext>" in the directory of the requested path
SuffixedName(k) == SafeName(sfRequest.dir, Append(sfRequest.stem, k), sfRequest.ext)

SafeResultOk ==
    sfPc = "returned" =>
        /\ file_path \notin sfFiles
        /\ (sfRequest \notin sfFiles) => file_path = sfRequest
        /\ (sfRequest \in sfFiles) =>
              \E k \in 2..(MaxSuffix + 2) :
                  /\ file_path = SuffixedName(k)
                  /\ \A j \in 2..(k - 1) : SuffixedName(j) \in sfFiles

\* C10: get_safe_file_path returns a path at which no file exists: the path
\* itself when no file exists there, else "<stem>_k<ext>" for the smallest
\* k >= 2 that is free; it terminates and changes nothing on the filesystem.
C10_SafePath ==
    /\ []SafeResultOk
    /\ [][sfFiles' = sfFiles]_vars
    /\ <>(sfPc = "returned")

\* C10 witness: out.zip and out_2.zip exist, out_3.zip is returned
C10_Witness ==
    /\ sfPc = "returned"
    /\ sfRequest = SafeName("d", <<0>>, ".zip")
    /\ {SafeName("d", <<0>>, ".zip"), SafeName("d", <<0, 2>>, ".zip")} \subseteq sfFiles
    /\ file_path = SafeName("d", <<0, 3>>, ".zip")

====
